---- MODULE Spec2Model ----
(***************************************************************************)
(* passgen: derivation of a site password from a master secret, a site     *)
(* name and a schema.  The driver (src/src/main.rs, fn main) is modelled   *)
(* step by step; the schema engine it calls (mod randexp: Expr::parse,     *)
(* Words::from, Enumerable::size, Enumerable::gen_at) is not among the     *)
(* sources and is modelled from the written specification.                 *)
(*                                                                         *)
(* Strings are sequences of one-character strings.  U256 is scaled down to *)
(* an unsigned integer of UBits bits.                                      *)
(***************************************************************************)
EXTENDS Integers, Sequences, FiniteSets, TLC

\* ------------------------------------------------------------------------
\* Bounds of the model
\* ------------------------------------------------------------------------

\* width in bits of the scaled-down U256
UBits == 6

\* number of invocations of the program a behaviour holds
MaxRuns == 2

\* largest repetition count of the enumerated schema trees
MaxRepeat == 2

\* ------------------------------------------------------------------------
\* Characters and strings
\* ------------------------------------------------------------------------

\* the addressable character domain, in code-point order
Alphabet == <<"0", "1", "2", "3", "4", "a", "b", "c">>

AlphabetSet == {Alphabet[i] : i \in 1..Len(Alphabet)}

Ord(c) == CHOOSE i \in 1..Len(Alphabet) : Alphabet[i] = c

Digits == <<"0", "1", "2", "3", "4", "5", "6", "7", "8", "9">>

IsDigit(c) == \E i \in 1..10 : Digits[i] = c

DigitVal(c) == (CHOOSE i \in 1..10 : Digits[i] = c) - 1

Range(s) == {s[i] : i \in 1..Len(s)}

Pow2(n) == 2 ^ n

\* u32 / usize Display: decimal, no sign, no leading zeros
RECURSIVE ToDec(_)
ToDec(n) == IF n < 10 THEN <<Digits[n + 1]>>
            ELSE ToDec(n \div 10) \o <<Digits[(n % 10) + 1]>>

\* str::trim on a line of the words file
RECURSIVE TrimStart(_)
TrimStart(s) == IF s # <<>> /\ Head(s) = " " THEN TrimStart(Tail(s)) ELSE s

RECURSIVE TrimEnd(_)
TrimEnd(s) == IF s # <<>> /\ s[Len(s)] = " "
              THEN TrimEnd(SubSeq(s, 1, Len(s) - 1)) ELSE s

Trim(s) == TrimEnd(TrimStart(s))

\* ------------------------------------------------------------------------
\* Schema AST (randexp::Expr)
\* ------------------------------------------------------------------------

Literal(c) == [t |-> "Literal", c |-> c]

CharClass(set, negated) == [t |-> "CharClass", set |-> set, negated |-> negated]

WordClass(cap) == [t |-> "WordClass", cap |-> cap]

Concat(ch) == [t |-> "Concat", ch |-> ch]

Alternate(ch) == [t |-> "Alternate", ch |-> ch]

Repeat(child, min, max) == [t |-> "Repeat", child |-> child, min |-> min, max |-> max]

\* ------------------------------------------------------------------------
\* Schema parser (randexp::Expr::parse): recursive descent over the text.
\* A result is [ok, node, pos]; pos is the next unread position.
\* ------------------------------------------------------------------------

PErr == [ok |-> FALSE, node |-> Literal("?"), pos |-> 0]

POk(node, pos) == [ok |-> TRUE, node |-> node, pos |-> pos]

At(s, p) == IF p <= Len(s) THEN s[p] ELSE "EOF"

\* one or more decimal digits
RECURSIVE ParseNum(_, _, _)
ParseNum(s, p, acc) ==
    IF IsDigit(At(s, p)) THEN ParseNum(s, p + 1, acc * 10 + DigitVal(s[p]))
    ELSE POk(acc, p)

\* a trailing {m} or {m,n}; none is the atom itself
ParseQuant(s, p, node) ==
    IF At(s, p) # "{" THEN POk(node, p)
    ELSE IF ~IsDigit(At(s, p + 1)) THEN PErr
    ELSE LET m == ParseNum(s, p + 1, 0)
         IN  IF At(s, m.pos) = "}" THEN POk(Repeat(node, m.node, m.node), m.pos + 1)
             ELSE IF At(s, m.pos) # "," \/ ~IsDigit(At(s, m.pos + 1)) THEN PErr
             ELSE LET n == ParseNum(s, m.pos + 1, 0)
                  IN  IF At(s, n.pos) # "}" \/ m.node > n.node THEN PErr
                      ELSE POk(Repeat(node, m.node, n.node), n.pos + 1)

\* the items of a character class up to the closing bracket
RECURSIVE ParseItems(_, _, _)
ParseItems(s, p, acc) ==
    LET c == At(s, p)
    IN  IF c = "EOF" THEN PErr
        ELSE IF c = "]" THEN POk(acc, p + 1)
        ELSE IF c \notin AlphabetSet THEN PErr
        ELSE IF At(s, p + 1) = "-" /\ At(s, p + 2) # "]"
        THEN LET d == At(s, p + 2)
             IN  IF d \notin AlphabetSet \/ Ord(d) < Ord(c) THEN PErr
                 ELSE ParseItems(s, p + 3,
                                 acc \cup {Alphabet[i] : i \in Ord(c)..Ord(d)})
        ELSE ParseItems(s, p + 1, acc \cup {c})

WordRef == <<":", "w", "o", "r", "d", ":", "]">>

WordRefCap == <<":", "W", "o", "r", "d", ":", "]">>

HasPrefix(s, p, pre) ==
    /\ p + Len(pre) - 1 <= Len(s)
    /\ SubSeq(s, p, p + Len(pre) - 1) = pre

\* after the opening bracket
ParseClass(s, p) ==
    IF HasPrefix(s, p, WordRef) THEN POk(WordClass(FALSE), p + Len(WordRef))
    ELSE IF HasPrefix(s, p, WordRefCap) THEN POk(WordClass(TRUE), p + Len(WordRefCap))
    ELSE LET neg == At(s, p) = "^"
             r == ParseItems(s, IF neg THEN p + 1 ELSE p, {})
         IN  IF r.ok THEN POk(CharClass(r.node, neg), r.pos) ELSE PErr

RECURSIVE ParseSeq(_, _, _)
RECURSIVE ParseAlt(_, _, _)

ParseAtom(s, p) ==
    LET c == At(s, p)
        base == IF c = "[" THEN ParseClass(s, p + 1)
                ELSE IF c = "(" THEN
                    IF At(s, p + 1) = ")" THEN POk(Alternate(<<>>), p + 2)
                    ELSE ParseAlt(s, p + 1, <<>>)
                ELSE IF c \in {"]", "{", "}", "EOF"} THEN PErr
                ELSE POk(Literal(c), p + 1)
    IN  IF base.ok THEN ParseQuant(s, base.pos, base.node) ELSE PErr

\* adjacent atoms up to the end, a bar or a closing parenthesis
ParseSeq(s, p, acc) ==
    IF At(s, p) \in {"EOF", "|", ")"} THEN POk(Concat(acc), p)
    ELSE LET a == ParseAtom(s, p)
         IN  IF a.ok THEN ParseSeq(s, a.pos, Append(acc, a.node)) ELSE PErr

\* the branches of a group, after the opening parenthesis
ParseAlt(s, p, acc) ==
    LET b == ParseSeq(s, p, <<>>)
    IN  IF ~b.ok \/ b.node.ch = <<>> THEN PErr
        ELSE IF At(s, b.pos) = "|" THEN ParseAlt(s, b.pos + 1, Append(acc, b.node))
        ELSE IF At(s, b.pos) = ")" THEN POk(Alternate(Append(acc, b.node)), b.pos + 1)
        ELSE PErr

\* Expr::parse: the whole text, or a syntax error
Parse(s) ==
    LET r == ParseSeq(s, 1, <<>>)
    IN  IF r.ok /\ r.pos = Len(s) + 1 THEN r ELSE PErr

\* ------------------------------------------------------------------------
\* Word Resource (randexp::Words)
\* ------------------------------------------------------------------------

\* the embedded default list (wordlist.rs, generated at build time)
EFF_WORDLIST == << <<"a">>, <<"b", "a">> >>

Upper(c) == CASE c = "a" -> "A" [] c = "b" -> "B" [] c = "c" -> "C" [] OTHER -> c

\* Words::from: the Word Resource over a list, in the order of the list
WordsFrom(list) == list

\* the :Word: rendering of a word
Capitalize(w) == IF w = <<>> THEN w ELSE <<Upper(Head(w))>> \o Tail(w)

\* ------------------------------------------------------------------------
\* Cardinality calculator (Enumerable::size) over the scaled U256.
\* Overflow is the value -1 and propagates.
\* ------------------------------------------------------------------------

UMax == Pow2(UBits) - 1

Overflow == -1


CheckedAdd(a, b) ==
    IF a = Overflow \/ b = Overflow \/ a + b > UMax THEN Overflow ELSE a + b

WrappingMul(a, b) == (a * b) % Pow2(UBits)

CheckedMul(a, b) ==
    IF a = Overflow \/ b = Overflow \/ a * b > UMax THEN Overflow ELSE a * b

RECURSIVE CheckedPow(_, _)
CheckedPow(b, k) == IF k = 0 THEN 1 ELSE CheckedMul(CheckedPow(b, k - 1), b)

\* the characters a class matches, in the order of the character domain
ClassSeq(node) ==
    LET eff == IF node.negated THEN AlphabetSet \ node.set ELSE node.set
        F[i \in 0..Len(Alphabet)] ==
            IF i = 0 THEN <<>>
            ELSE IF Alphabet[i] \in eff THEN Append(F[i - 1], Alphabet[i])
            ELSE F[i - 1]
    IN  F[Len(Alphabet)]

RECURSIVE Size(_, _)
RECURSIVE SizeProduct(_, _)
RECURSIVE SizeSum(_, _)
RECURSIVE SizePowers(_, _, _)

\* product of the children's sizes, the empty product being 1
SizeProduct(words, ch) ==
    IF ch = <<>> THEN 1
    ELSE CheckedMul(SizeProduct(words, SubSeq(ch, 1, Len(ch) - 1)),
                    Size(words, ch[Len(ch)]))

\* sum of the children's sizes, the empty sum being 0
SizeSum(words, ch) ==
    IF ch = <<>> THEN 0
    ELSE CheckedAdd(SizeSum(words, SubSeq(ch, 1, Len(ch) - 1)),
                    Size(words, ch[Len(ch)]))

\* sum over k = lo..hi of base^k
SizePowers(base, lo, hi) ==
    IF lo > hi THEN 0
    ELSE CheckedAdd(CheckedPow(base, lo), SizePowers(base, lo + 1, hi))

Size(words, node) ==
    CASE node.t = "Literal" -> 1
      [] node.t = "CharClass" -> Len(ClassSeq(node))
      [] node.t = "WordClass" -> Len(words)
      [] node.t = "Concat" -> SizeProduct(words, node.ch)
      [] node.t = "Alternate" -> SizeSum(words, node.ch)
      [] node.t = "Repeat" -> SizePowers(Size(words, node.child), node.min, node.max)

\* ------------------------------------------------------------------------
\* Index decoder (Enumerable::gen_at)
\* ------------------------------------------------------------------------

GenErr == <<"IndexOutOfRange">>

RECURSIVE Copies(_, _)
Copies(x, k) == IF k = 0 THEN <<>> ELSE Append(Copies(x, k - 1), x)

RECURSIVE GenAt(_, _, _)
RECURSIVE GenConcat(_, _, _)
RECURSIVE GenAlternate(_, _, _, _)
RECURSIVE GenRepeat(_, _, _, _, _)

\* mixed radix, the last child varying fastest
GenConcat(words, ch, index) ==
    IF ch = <<>> THEN <<>>
    ELSE LET last == ch[Len(ch)]
             n == Size(words, last)
         IN  GenConcat(words, SubSeq(ch, 1, Len(ch) - 1), index \div n)
                 \o GenAt(words, last, index % n)

\* the branch whose range holds the index, from branch i on
GenAlternate(words, ch, i, index) ==
    LET n == Size(words, ch[i])
    IN  IF index < n THEN GenAt(words, ch[i], index)
        ELSE GenAlternate(words, ch, i + 1, index - n)

\* the repetition count whose range holds the index, from count k on
GenRepeat(words, child, k, max, index) ==
    LET n == CheckedPow(Size(words, child), k)
    IN  IF index < n THEN GenConcat(words, Copies(child, k), index)
        ELSE GenRepeat(words, child, k + 1, max, index - n)

GenAt(words, node, index) ==
    IF index >= Size(words, node) THEN GenErr
    ELSE CASE node.t = "Literal" -> <<node.c>>
           [] node.t = "CharClass" -> <<ClassSeq(node)[index + 1]>>
           [] node.t = "WordClass" ->
                  IF node.cap THEN Capitalize(words[index + 1]) ELSE words[index + 1]
           [] node.t = "Concat" -> GenConcat(words, node.ch, index)
           [] node.t = "Alternate" -> GenAlternate(words, node.ch, 1, index)
           [] node.t = "Repeat" ->
                  GenRepeat(words, node.child, node.min, node.max, index)

\* ------------------------------------------------------------------------
\* The language of a schema, enumerated string by string
\* ------------------------------------------------------------------------

Cat(A, B) == {x \o y : x \in A, y \in B}

RECURSIVE LangPower(_, _)
LangPower(A, k) == IF k = 0 THEN {<<>>} ELSE Cat(LangPower(A, k - 1), A)

RECURSIVE Lang(_, _)
RECURSIVE LangConcat(_, _)

LangConcat(words, ch) ==
    IF ch = <<>> THEN {<<>>}
    ELSE Cat(LangConcat(words, SubSeq(ch, 1, Len(ch) - 1)), Lang(words, ch[Len(ch)]))

Lang(words, node) ==
    CASE node.t = "Literal" -> {<<node.c>>}
      [] node.t = "CharClass" -> {<<c>> : c \in Range(ClassSeq(node))}
      [] node.t = "WordClass" ->
             {IF node.cap THEN Capitalize(w) ELSE w : w \in Range(words)}
      [] node.t = "Concat" -> LangConcat(words, node.ch)
      [] node.t = "Alternate" ->
             UNION {Lang(words, node.ch[i]) : i \in 1..Len(node.ch)}
      [] node.t = "Repeat" ->
             UNION {LangPower(Lang(words, node.child), k) : k \in node.min..node.max}

\* ------------------------------------------------------------------------
\* Number rendering of the verbose line (U256::bits, U256 Display)
\* ------------------------------------------------------------------------

\* a bit length that is the floor of the binary logarithm
RECURSIVE BitsFloor(_)
BitsFloor(n) == IF n <= 1 THEN 0 ELSE 1 + BitsFloor(n \div 2)

\* U256::bits: the length in bits of n, 0 for 0
RECURSIVE Bits(_)
Bits(n) == IF n = 0 THEN 0 ELSE 1 + Bits(n \div 2)

HexDigits == <<"0", "1", "2", "3", "4", "5", "6", "7", "8", "9",
               "A", "B", "C", "D", "E", "F">>

\* number of hexadecimal digits of the scaled U256
HexWidth == (UBits + 3) \div 4

\* U256 Display: upper-case hexadecimal, zero-padded to the full width
RECURSIVE ToHex(_, _)
ToHex(n, width) ==
    IF width = 0 THEN <<>>
    ELSE ToHex(n \div 16, width - 1) \o <<HexDigits[(n % 16) + 1]>>

\* str::trim_start_matches('0')
RECURSIVE TrimZeros(_)
TrimZeros(s) == IF s # <<>> /\ Head(s) = "0" THEN TrimZeros(Tail(s)) ELSE s

\* the value a hexadecimal numeral denotes
RECURSIVE HexValue(_)
HexValue(s) ==
    IF s = <<>> THEN 0
    ELSE 16 * HexValue(SubSeq(s, 1, Len(s) - 1))
         + (CHOOSE i \in 1..16 : HexDigits[i] = s[Len(s)]) - 1

\* ------------------------------------------------------------------------
\* Key derivation and keystream (argon2, blake3, crypto_bigint), abstracted
\* to deterministic functions over the scaled integer domain
\* ------------------------------------------------------------------------

\* the bytes strings are made of
Charset == <<" ", "-", ":", "0", "1", "2", "3", "4", "5", "6", "7", "8", "9",
             "a", "b", "c", "p", "q", ".">>

Code(c) == CHOOSE i \in 1..Len(Charset) : Charset[i] = c

RECURSIVE Mix(_, _)
Mix(h, s) == IF s = <<>> THEN h
             ELSE Mix((h * 31 + Code(Head(s))) % Pow2(UBits), Tail(s))

\* Argon2d over (password, salt) into the key material
Argon2(password, salt) == Mix(Mix(Mix(7, password), <<" ">>), salt)

\* blake3::Hasher::update(key).finalize_xof(): the output reader
FinalizeXof(key) == [seed |-> (key * 5 + 3) % Pow2(UBits), pos |-> 0]

\* the word the reader yields at position pos
XofWord(seed, pos) == (seed + pos * 37) % Pow2(UBits)

\* U256::random_mod: draw words until one is below the modulus
RandomMod(rng, modulus) ==
    LET j == CHOOSE j \in rng.pos..(rng.pos + Pow2(UBits)) :
                 /\ XofWord(rng.seed, j) < modulus
                 /\ \A i \in rng.pos..(j - 1) : XofWord(rng.seed, i) >= modulus
    IN  [index |-> XofWord(rng.seed, j), rng |-> [seed |-> rng.seed, pos |-> j + 1]]

\* ------------------------------------------------------------------------
\* Inputs of a run: command line, configuration file, words file, prompts
\* ------------------------------------------------------------------------

\* an Option<T>: the empty sequence, or one value
Opt(S) == {<<>>} \cup {<<v>> : v \in S}

SchemaPin == <<"[", "0", "-", "4", "]", "{", "2", "}">>

SchemaLogin == <<"[", "a", "-", "c", "]", "{", "2", "}">>

SchemaWord == <<"[", ":", "w", "o", "r", "d", ":", "]">>

SchemaAB == <<"[", "a", "b", "]", "{", "2", ",", "3", "}">>

SchemaDup == <<"(", "a", "|", "a", ")">>

SchemaEmpty == <<"(", ")">>

SchemaBig == <<"[", "a", "-", "c", "]", "{", "4", "}">>

SchemaBad == <<"[", "a", "-">>

SchemaPhrase == <<"[", ":", "W", "o", "r", "d", ":", "]", "-", "[", "0", "-", "4", "]">>

AliasPin == <<"p">>

AliasLogin == <<"q">>

AliasWord == <<"w">>

SiteDot == <<"a", ".", "c">>

SiteColon == <<":", "a">>

SiteDigit == <<"2", ":", "a">>

Sites == {SiteDot, SiteColon, SiteDigit}

\* Config::default(), with its schemas and names scaled down
DefaultConfig ==
    [default_schema |-> AliasLogin,
     aliases |-> (AliasPin :> SchemaPin) @@ (AliasLogin :> SchemaLogin),
     sites |-> <<[name |-> SiteDot, schema |-> AliasPin, increment |-> 1]>>]

\* a configuration file the user wrote
UserConfig ==
    [default_schema |-> SchemaAB,
     aliases |-> (AliasWord :> SchemaWord),
     sites |-> <<[name |-> SiteColon, schema |-> AliasWord, increment |-> 12]>>]

AliasGet(aliases, k) == IF k \in DOMAIN aliases THEN aliases[k] ELSE k

\* Config::from_file: the file's configuration, or the default one when the
\* file does not exist, with the aliases of default_schema and of the sites
\* resolved
ConfigFromFile(file) ==
    LET c == IF file = "user" THEN UserConfig ELSE DefaultConfig
    IN  [default_schema |-> AliasGet(c.aliases, c.default_schema),
         aliases |-> c.aliases,
         sites |-> [i \in 1..Len(c.sites) |->
                       [name |-> c.sites[i].name,
                        schema |-> AliasGet(c.aliases, c.sites[i].schema),
                        increment |-> c.sites[i].increment]]]

\* words files: the lines of each
WordsDup == << <<"b">>, <<" ", "b">>, <<"a">> >>

WordsNone == << >>

WordsTwo == << <<"c">>, <<"a", " ">> >>

WordFiles == {WordsDup, WordsNone, WordsTwo}

SchemaArgs == {AliasPin, SchemaDup, SchemaEmpty, SchemaBig, SchemaBad, SchemaPhrase}

IncArgs == {1, 2}

Secrets == {<<"p">>, <<"q">>}

\* every command line
AllArgs ==
    [site : Sites, config_file : {"user", "missing"}, words_path : Opt(WordFiles),
     schema : Opt(SchemaArgs), increment : Opt(IncArgs),
     confirm : BOOLEAN, verbose : BOOLEAN]

\* the command lines of two successive invocations
PairArgs ==
    [site : {SiteColon, SiteDigit}, config_file : {"user"}, words_path : Opt({WordsTwo}),
     schema : {<<>>}, increment : Opt({1}),
     confirm : BOOLEAN, verbose : BOOLEAN]

\* ------------------------------------------------------------------------
\* State of the driver (fn main)
\* ------------------------------------------------------------------------

VARIABLES
    pc,            \* the statement main is at
    status,        \* "running", "ok", or the error the run ended with
    args,          \* Args::parse()
    config,        \* Config::from_file
    words,         \* the Word Resource
    schema,        \* the schema text in force
    increment,     \* the increment in force
    expr,          \* Expr::parse(schema)
    size,          \* words.size(&expr)
    password,      \* the master secret read from the prompt
    confirmed,     \* the text read from the confirmation prompt
    salt,          \* "{increment}:{site}"
    key_material,  \* the Argon2 output
    rng,           \* Blake3Rng: the output reader
    index,         \* the index drawn
    res,           \* the generated password
    mem,           \* each secret buffer: "none", "live", "zeroed" or "freed"
    stdout,        \* the bytes written to standard output
    stderr,        \* the records written to standard error
    prev,          \* the inputs and results of the previous invocation
    runs           \* invocations started so far

vars == <<pc, status, args, config, words, schema, increment, expr, size, password,
          confirmed, salt, key_material, rng, index, res, mem, stdout, stderr, prev, runs>>

Buffers == {"password", "confirmed", "key_material", "hasher", "rng", "res"}

\* the confirmation held in a plain String
ZeroizingExceptConfirmed == {"password", "key_material", "hasher", "rng"}

\* the bindings main wraps in Zeroizing
ZeroizingInMain == {"password", "confirmed", "key_material", "hasher", "rng"}

\* gen_at returns its string in a scoped secure buffer
GenAtIsZeroizing == TRUE

IsZeroizing(b) == b \in ZeroizingInMain \/ (b = "res" /\ GenAtIsZeroizing)

\* drop of a binding: Zeroizing overwrites with zeros, then the memory is freed
Drop(m, b) ==
    IF m[b] # "live" THEN m[b] ELSE IF IsZeroizing(b) THEN "zeroed" ELSE "freed"

DropAll(m) == [b \in Buffers |-> Drop(m, b)]

NoArgs ==
    [site |-> <<>>, config_file |-> "missing", words_path |-> <<>>, schema |-> <<>>,
     increment |-> <<>>, confirm |-> FALSE, verbose |-> FALSE]

NoRng == [seed |-> 0, pos |-> 0]

NoRun ==
    [ok |-> FALSE, generated |-> FALSE, confirm |-> FALSE, verbose |-> FALSE,
     secret |-> <<>>, increment |-> 0, site |-> <<>>, expr |-> Concat(<<>>),
     words |-> <<>>, salt |-> <<>>, res |-> <<>>]

\* what an invocation leaves behind for the comparison with the next one
Summary(tag) ==
    [ok |-> tag = "ok", generated |-> mem["res"] = "live", confirm |-> args.confirm,
     verbose |-> args.verbose, secret |-> password, increment |-> increment,
     site |-> args.site, expr |-> expr, words |-> words, salt |-> salt, res |-> res]

Init ==
    /\ pc = "idle" /\ status = "ok" /\ args = NoArgs /\ config = ConfigFromFile("missing")
    /\ words = <<>> /\ schema = <<>> /\ increment = 0 /\ expr = Concat(<<>>)
    /\ size = 0 /\ password = <<>> /\ confirmed = <<>> /\ salt = <<>> /\ key_material = 0
    /\ rng = NoRng /\ index = 0 /\ res = <<>>
    /\ mem = [b \in Buffers |-> "none"]
    /\ stdout = <<>> /\ stderr = <<>> /\ prev = NoRun /\ runs = 0

\* the end of main by return, by error or by panic: every binding in scope is
\* dropped, an error is reported on standard error
Finish(tag, m, out) ==
    /\ pc' = "exit"
    /\ status' = tag
    /\ mem' = DropAll(m)
    /\ password' = IF Drop(m, "password") = "zeroed" THEN <<>> ELSE password
    /\ confirmed' = IF Drop(m, "confirmed") = "zeroed" THEN <<>> ELSE confirmed
    /\ key_material' = IF Drop(m, "key_material") = "zeroed" THEN 0 ELSE key_material
    /\ rng' = IF Drop(m, "rng") = "zeroed" THEN NoRng ELSE rng
    /\ res' = IF Drop(m, "res") = "zeroed" THEN <<>> ELSE res
    /\ stdout' = out
    /\ stderr' = IF tag = "ok" THEN stderr
                 ELSE Append(stderr, [kind |-> "error", fields |-> <<<<tag>>>>])
    /\ prev' = Summary(tag)
    /\ UNCHANGED <<args, config, words, schema, increment, expr, size, salt, index, runs>>

\* ------------------------------------------------------------------------
\* The steps of main
\* ------------------------------------------------------------------------

\* main.rs 216: a new process parses its command line
Launch(A) ==
    /\ pc \in {"idle", "exit"}
    /\ runs < MaxRuns
    /\ \E a \in A : args' = a
    /\ pc' = "config" /\ status' = "running" /\ runs' = runs + 1
    /\ config' = ConfigFromFile("missing")
    /\ words' = <<>> /\ schema' = <<>> /\ increment' = 0 /\ expr' = Concat(<<>>)
    /\ size' = 0 /\ password' = <<>> /\ confirmed' = <<>> /\ salt' = <<>> /\ key_material' = 0
    /\ rng' = NoRng /\ index' = 0 /\ res' = <<>>
    /\ mem' = [b \in Buffers |-> "none"]
    /\ stdout' = <<>> /\ stderr' = <<>>
    /\ UNCHANGED prev

\* main.rs 218-221: the configuration is read, or created when it is missing
LoadConfig ==
    /\ pc = "config"
    /\ \/ /\ config' = ConfigFromFile(args.config_file)
          /\ pc' = "words"
          /\ UNCHANGED <<status, args, words, schema, increment, expr, size, password, confirmed,
                         salt, key_material, rng, index, res, mem, stdout, stderr,
                         prev, runs>>
       \/ Finish("ConfigError", mem, stdout)

\* main.rs 223-231: the words file is read, split in lines and trimmed, or the
\* embedded list is taken
LoadWords ==
    /\ pc = "words"
    /\ \/ /\ words' = IF args.words_path = <<>> THEN WordsFrom(EFF_WORDLIST)
                      ELSE LET lines == args.words_path[1]
                           IN  WordsFrom([i \in 1..Len(lines) |-> Trim(lines[i])])
          /\ pc' = "resolve"
          /\ UNCHANGED <<status, args, config, schema, increment, expr, size, password, confirmed,
                         salt, key_material, rng, index, res, mem, stdout, stderr,
                         prev, runs>>
       \/ /\ args.words_path # <<>>
          /\ Finish("WordsFileError", mem, stdout)

\* main.rs 233: the first configured site of that name
FindSite(cfg, name) ==
    LET hits == {i \in 1..Len(cfg.sites) : cfg.sites[i].name = name}
    IN  IF hits = {} THEN <<>>
        ELSE <<cfg.sites[CHOOSE i \in hits : \A j \in hits : i <= j]>>

\* main.rs 233-240: the schema and the increment in force
ResolveSite ==
    /\ pc = "resolve"
    /\ LET site == FindSite(config, args.site)
       IN  /\ schema' = IF args.schema # <<>> THEN AliasGet(config.aliases, args.schema[1])
                        ELSE IF site # <<>> THEN site[1].schema
                        ELSE config.default_schema
           /\ increment' = IF args.increment # <<>> THEN args.increment[1]
                           ELSE IF site # <<>> THEN site[1].increment
                           ELSE 0
    /\ pc' = "parse"
    /\ UNCHANGED <<status, args, config, words, expr, size, password, confirmed, salt,
                   key_material, rng, index, res, mem, stdout, stderr, prev, runs>>

\* main.rs 241: Expr::parse(schema)?
ParseSchema ==
    /\ pc = "parse"
    /\ LET r == Parse(schema)
       IN  IF r.ok
           THEN /\ expr' = r.node
                /\ pc' = "size"
                /\ UNCHANGED <<status, args, config, words, schema, increment, size,
                               password, confirmed, salt, key_material, rng, index, res, mem,
                               stdout, stderr, prev, runs>>
           ELSE Finish("SchemaSyntaxError", mem, stdout)

\* main.rs 242: words.size(&expr)
ComputeSize ==
    /\ pc = "size"
    /\ LET n == Size(words, expr)
       IN  IF n # Overflow
           THEN /\ size' = n
                /\ pc' = "verbose"
                /\ UNCHANGED <<status, args, config, words, schema, increment, expr,
                               password, confirmed, salt, key_material, rng, index, res, mem,
                               stdout, stderr, prev, runs>>
           ELSE Finish("SchemaTooLargeError", mem, stdout)

\* the entropy line printed with println!
VerbosePrintln ==
    /\ pc = "verbose"
    /\ stdout' = IF args.verbose
                 THEN stdout \o ToDec(Bits(size)) \o TrimZeros(ToHex(size, HexWidth))
                 ELSE stdout
    /\ pc' = "prompt"
    /\ UNCHANGED <<status, args, config, words, schema, increment, expr, size, password,
                   confirmed, salt, key_material, rng, index, res, mem, stderr, prev,
                   runs>>

\* main.rs 244-250: the entropy line, on standard error
Verbose ==
    /\ pc = "verbose"
    /\ stderr' = IF args.verbose
                 THEN Append(stderr,
                             [kind |-> "entropy",
                              fields |-> <<ToDec(Bits(size)),
                                           TrimZeros(ToHex(size, HexWidth))>>])
                 ELSE stderr
    /\ pc' = "prompt"
    /\ UNCHANGED <<status, args, config, words, schema, increment, expr, size, password, confirmed,
                   salt, key_material, rng, index, res, mem, stdout, prev, runs>>

\* main.rs 252-254: the master password is read into a Zeroizing<String>
PromptPassword ==
    /\ pc = "prompt"
    /\ \/ /\ \E s \in Secrets : password' = s
          /\ mem' = [mem EXCEPT !["password"] = "live"]
          /\ pc' = "confirm"
          /\ UNCHANGED <<confirmed, status, args, config, words, schema, increment, expr, size,
                         salt, key_material, rng, index, res, stdout, stderr, prev, runs>>
       \/ Finish("PromptError", mem, stdout)

\* main.rs 255-258: the confirmation is read into a Zeroizing<String>
PromptConfirm ==
    /\ pc = "confirm"
    /\ IF ~args.confirm
       THEN /\ pc' = "salt"
            /\ UNCHANGED <<status, args, config, words, schema, increment, expr, size,
                           password, confirmed, salt, key_material, rng, index, res,
                           mem, stdout, stderr, prev, runs>>
       ELSE \/ /\ \E s \in Secrets : confirmed' = s
               /\ mem' = [mem EXCEPT !["confirmed"] = "live"]
               /\ pc' = "compare"
               /\ UNCHANGED <<status, args, config, words, schema, increment, expr,
                              size, password, salt, key_material, rng, index, res,
                              stdout, stderr, prev, runs>>
            \/ Finish("PromptError", mem, stdout)

\* a comparison that lets every confirmation pass
CompareConfirmNoBail ==
    /\ pc = "compare"
    /\ mem' = [mem EXCEPT !["confirmed"] = Drop(mem, "confirmed")]
    /\ confirmed' = IF Drop(mem, "confirmed") = "zeroed" THEN <<>> ELSE confirmed
    /\ pc' = "salt"
    /\ UNCHANGED <<status, args, config, words, schema, increment, expr, size,
                   password, salt, key_material, rng, index, res, stdout,
                   stderr, prev, runs>>

\* main.rs 259-262: bail unless the two texts are equal; the confirmation is
\* dropped at the end of its block
CompareConfirm ==
    /\ pc = "compare"
    /\ IF confirmed # password
       THEN Finish("SecretMismatchError", mem, stdout)
       ELSE /\ mem' = [mem EXCEPT !["confirmed"] = Drop(mem, "confirmed")]
            /\ confirmed' = IF Drop(mem, "confirmed") = "zeroed" THEN <<>> ELSE confirmed
            /\ pc' = "salt"
            /\ UNCHANGED <<status, args, config, words, schema, increment, expr, size,
                           password, salt, key_material, rng, index, res, stdout,
                           stderr, prev, runs>>

\* the two parts joined without the separator
FormatSaltNoSeparator(inc, site) == ToDec(inc) \o site

\* main.rs 263: format!("{0}:{1}", increment, &args.site)
FormatSalt(inc, site) == ToDec(inc) \o <<":">> \o site

MakeSalt ==
    /\ pc = "salt"
    /\ salt' = FormatSalt(increment, args.site)
    /\ pc' = "derive"
    /\ UNCHANGED <<status, args, config, words, schema, increment, expr, size, password, confirmed,
                   key_material, rng, index, res, mem, stdout, stderr, prev, runs>>

\* main.rs 264-272: Argon2d over the password and the salt
DeriveKey ==
    /\ pc = "derive"
    /\ \/ /\ key_material' = Argon2(password, salt)
          /\ mem' = [mem EXCEPT !["key_material"] = "live"]
          /\ pc' = "xof"
          /\ UNCHANGED <<status, args, config, words, schema, increment, expr, size,
                         password, confirmed, salt, rng, index, res, stdout, stderr, prev, runs>>
       \/ Finish("KdfError", [mem EXCEPT !["key_material"] = "live"], stdout)

\* an output reader seeded anew in every invocation
MakeRngPerRun ==
    /\ pc = "xof"
    /\ rng' = FinalizeXof(key_material + runs)
    /\ mem' = [mem EXCEPT !["hasher"] = "live", !["rng"] = "live"]
    /\ pc' = "draw"
    /\ UNCHANGED <<status, args, config, words, schema, increment, expr, size, password,
                   confirmed, salt, key_material, index, res, stdout, stderr, prev, runs>>

\* main.rs 274-276: the hasher absorbs the key, the output reader is made
MakeRng ==
    /\ pc = "xof"
    /\ rng' = FinalizeXof(key_material)
    /\ mem' = [mem EXCEPT !["hasher"] = "live", !["rng"] = "live"]
    /\ pc' = "draw"
    /\ UNCHANGED <<status, args, config, words, schema, increment, expr, size, password, confirmed,
                   salt, key_material, index, res, stdout, stderr, prev, runs>>

\* main.rs 277: NonZero::new(size).unwrap(), then U256::random_mod
DrawIndex ==
    /\ pc = "draw"
    /\ IF size = 0
       THEN Finish("Panic", mem, stdout)
       ELSE LET d == RandomMod(rng, size)
            IN  /\ index' = d.index
                /\ rng' = d.rng
                /\ pc' = "gen"
                /\ UNCHANGED <<status, args, config, words, schema, increment, expr,
                               size, password, confirmed, salt, key_material, res, mem, stdout,
                               stderr, prev, runs>>

\* main.rs 278: words.gen_at(&expr, index)?
Generate ==
    /\ pc = "gen"
    /\ LET g == GenAt(words, expr, index)
       IN  IF g = GenErr
           THEN Finish("IndexOutOfRangeError", mem, stdout)
           ELSE /\ res' = g
                /\ mem' = [mem EXCEPT !["res"] = "live"]
                /\ pc' = "write"
                /\ UNCHANGED <<status, args, config, words, schema, increment, expr,
                               size, password, confirmed, salt, key_material, rng, index, stdout,
                               stderr, prev, runs>>

\* main.rs 279-280: stdout.write_all(res.as_bytes())?; an error may come after
\* part of the bytes has been written
WriteAll ==
    /\ pc = "write"
    /\ \/ /\ stdout' = stdout \o res
          /\ pc' = "newline"
          /\ UNCHANGED <<status, args, config, words, schema, increment, expr, size,
                         password, confirmed, salt, key_material, rng, index, res, mem, stderr,
                         prev, runs>>
       \/ \E k \in 0..(Len(res) - 1) :
              Finish("OutputWriteError", mem, stdout \o SubSeq(res, 1, k))

\* main.rs 281-284: a line terminator when standard output is a terminal, then
\* the return from main
WriteNewline ==
    /\ pc = "newline"
    /\ \E is_terminal \in BOOLEAN :
           IF is_terminal
           THEN \/ Finish("ok", mem, stdout \o <<"\n">>)
                \/ Finish("OutputWriteError", mem, stdout)
           ELSE Finish("ok", mem, stdout)

\* one invocation, any command line
Start == runs = 0 /\ Launch(AllArgs)

\* successive invocations
StartPair == Launch(PairArgs)

Steps ==
    \/ LoadConfig \/ LoadWords \/ ResolveSite \/ ParseSchema \/ ComputeSize
    \/ Verbose \/ PromptPassword \/ PromptConfirm \/ CompareConfirm
    \/ MakeSalt \/ DeriveKey \/ MakeRng
    \/ DrawIndex \/ Generate \/ WriteAll \/ WriteNewline

Next == Start \/ Steps

Spec == Init /\ [][Next]_vars

NextPair == StartPair \/ Steps

SpecPair == Init /\ [][NextPair]_vars

\* ------------------------------------------------------------------------
\* The decoder alone: every index of every schema tree of a bounded family,
\* over the embedded word list
\* ------------------------------------------------------------------------

Leaves == {Literal("a"), Literal("b"), CharClass({"a", "b"}, FALSE), WordClass(FALSE)}

Quantifiers == {<<m, n>> \in (0..MaxRepeat) \X (0..MaxRepeat) : m <= n}

Level1 ==
    Leaves \cup {Concat(<<>>), Alternate(<<>>)}
           \cup {Concat(<<x, y>>) : x \in Leaves, y \in Leaves}
           \cup {Alternate(<<x, y>>) : x \in Leaves, y \in Leaves}
           \cup {Repeat(x, q[1], q[2]) : x \in Leaves, q \in Quantifiers}

Exprs ==
    Level1 \cup {Repeat(x, q[1], q[2]) : x \in Level1, q \in Quantifiers}
           \cup {Concat(<<x, y>>) : x \in Level1, y \in Leaves}
           \cup {Alternate(<<x, y>>) : x \in Level1, y \in Leaves}

GenInit ==
    /\ pc = "enum" /\ status = "running" /\ args = NoArgs
    /\ config = ConfigFromFile("missing")
    /\ words = WordsFrom(EFF_WORDLIST) /\ schema = <<>> /\ increment = 0
    /\ expr \in {e \in Exprs : Size(EFF_WORDLIST, e) # Overflow}
    /\ size = Size(words, expr)
    /\ password = <<>> /\ confirmed = <<>> /\ salt = <<>> /\ key_material = 0
    /\ rng = NoRng /\ index = 0
    /\ res = GenAt(words, expr, 0)
    /\ mem = [b \in Buffers |-> "none"]
    /\ stdout = <<>> /\ stderr = <<>> /\ prev = NoRun /\ runs = 0

\* the next index is decoded
Enumerate ==
    /\ pc = "enum"
    /\ index + 1 < size
    /\ index' = index + 1
    /\ res' = GenAt(words, expr, index + 1)
    /\ UNCHANGED <<pc, status, args, config, words, schema, increment, expr, size,
                   password, confirmed, salt, key_material, rng, mem, stdout, stderr,
                   prev, runs>>

SpecGen == GenInit /\ [][Enumerate]_vars

\* ------------------------------------------------------------------------
\* Properties
\* ------------------------------------------------------------------------

IsPrefix(a, b) == Len(a) <= Len(b) /\ SubSeq(b, 1, Len(a)) = a

\* the value a decimal numeral denotes
RECURSIVE DecValue(_)
DecValue(s) ==
    IF s = <<>> THEN 0
    ELSE 10 * DecValue(SubSeq(s, 1, Len(s) - 1)) + DigitVal(s[Len(s)])

Max(a, b) == IF a >= b THEN a ELSE b

\* the cardinality in unbounded arithmetic, with the largest value met on the
\* way: [v, peak]
RECURSIVE Exact(_, _)
RECURSIVE ExactProduct(_, _)
RECURSIVE ExactSum(_, _)
RECURSIVE ExactPowers(_, _, _)

ExactProduct(ws, ch) ==
    IF ch = <<>> THEN [v |-> 1, peak |-> 1]
    ELSE LET a == ExactProduct(ws, SubSeq(ch, 1, Len(ch) - 1))
             e == Exact(ws, ch[Len(ch)])
         IN  [v |-> a.v * e.v, peak |-> Max(Max(a.peak, e.peak), a.v * e.v)]

ExactSum(ws, ch) ==
    IF ch = <<>> THEN [v |-> 0, peak |-> 0]
    ELSE LET a == ExactSum(ws, SubSeq(ch, 1, Len(ch) - 1))
             e == Exact(ws, ch[Len(ch)])
         IN  [v |-> a.v + e.v, peak |-> Max(Max(a.peak, e.peak), a.v + e.v)]

ExactPowers(base, lo, hi) ==
    IF lo > hi THEN [v |-> 0, peak |-> 0]
    ELSE LET r == ExactPowers(base, lo + 1, hi)
             top == IF base = 0 THEN 1 ELSE base ^ lo
         IN  [v |-> base ^ lo + r.v, peak |-> Max(Max(r.peak, top), base ^ lo + r.v)]

Exact(ws, node) ==
    CASE node.t = "Literal" -> [v |-> 1, peak |-> 1]
      [] node.t = "CharClass" -> [v |-> Len(ClassSeq(node)), peak |-> Len(ClassSeq(node))]
      [] node.t = "WordClass" -> [v |-> Len(ws), peak |-> Len(ws)]
      [] node.t = "Concat" -> ExactProduct(ws, node.ch)
      [] node.t = "Alternate" -> ExactSum(ws, node.ch)
      [] node.t = "Repeat" ->
             LET e == Exact(ws, node.child)
                 r == ExactPowers(e.v, node.min, node.max)
             IN  [v |-> r.v, peak |-> Max(e.peak, r.peak)]

PreSizeErrors ==
    {"ConfigError", "WordsFileError", "SchemaSyntaxError", "SchemaTooLargeError"}

\* words.size(&expr) has returned
SizeComputed ==
    \/ pc \in {"verbose", "prompt", "confirm", "compare", "salt", "derive", "xof",
               "draw", "gen", "write", "newline"}
    \/ pc = "exit" /\ status \notin PreSizeErrors

\* the salt has been built
SaltBuilt ==
    \/ pc \in {"derive", "xof", "draw", "gen", "write", "newline"}
    \/ pc = "exit" /\ salt # <<>>

\* the password of the run, also after its buffer is wiped
Generated == IF pc = "exit" THEN prev.res ELSE res

\* C1: a schema that parses and has cardinality 0 makes the run fail with
\* EmptyLanguageError before the master-secret prompt is issued.
C1_EmptyLanguageBeforePrompt ==
    (SizeComputed /\ size = 0) =>
        /\ mem["password"] = "none"
        /\ status # "PromptError"
        /\ pc = "exit" => status = "EmptyLanguageError"

\* C2: when the confirmation differs from the master password the run ends
\* with SecretMismatchError, and in a run that ended so no key was derived, no
\* keystream made, no index drawn and nothing written.
C2_MismatchAbortsBeforeDerivation ==
    /\ [](status = "SecretMismatchError" =>
            /\ mem["key_material"] = "none" /\ key_material = 0
            /\ mem["hasher"] = "none" /\ mem["rng"] = "none" /\ rng = NoRng
            /\ salt = <<>> /\ index = 0
            /\ mem["res"] = "none" /\ stdout = <<>>)
    /\ [][(pc = "compare" /\ confirmed # password) =>
              (pc' = "exit" /\ status' = "SecretMismatchError")]_vars

C2_Witness ==
    pc = "exit" /\ status = "SecretMismatchError" /\ args.confirm
    /\ mem["password"] = "zeroed"

\* C3: i -> gen_at(expr, i) maps [0, size) one-to-one onto the language of the
\* schema enumerated string by string: every string decoded so far is in the
\* language, no two indices decoded so far gave the same string, and once the
\* last index is decoded every string of the language has been produced.
C3_GenerateIsBijection ==
    pc = "enum" =>
        LET L == Lang(words, expr)
            G == [i \in 0..index |-> GenAt(words, expr, i)]
        IN  IF size = 0 THEN L = {}
            ELSE /\ res \in L
                 /\ \A i, j \in DOMAIN G : i # j => G[i] # G[j]
                 /\ index = size - 1 => {G[i] : i \in DOMAIN G} = L

\* C4 as stated: a run that ends in failure, of whatever kind, has written no
\* byte to standard output.
C4_NoOutputOnAnyFailure ==
    (pc = "exit" /\ status # "ok") => stdout = <<>>

\* C4 amended: a run that fails for another reason than an output write error
\* has written nothing; a run that fails in the output write has written a
\* prefix of the password; a successful run has written the whole password,
\* with a line terminator or without.
C4_NoOutputUnlessWriteFails ==
    /\ (pc = "exit" /\ status \notin {"ok", "OutputWriteError"}) => stdout = <<>>
    /\ (pc = "exit" /\ status = "OutputWriteError") => IsPrefix(stdout, prev.res)
    /\ (pc = "exit" /\ status = "ok") => stdout \in {prev.res, prev.res \o <<"\n">>}
    /\ pc \notin {"newline", "exit"} => stdout = <<>>

C4_Witness ==
    pc = "exit" /\ status = "KdfError" /\ mem["password"] = "zeroed" /\ stdout = <<>>

\* C5: the salts of two invocations are equal exactly when the two have the
\* same increment and the same site.
C5_SaltInjective ==
    (prev.salt # <<>> /\ SaltBuilt) =>
        ((prev.increment = increment /\ prev.site = args.site) <=> prev.salt = salt)

C5_Witness ==
    /\ SaltBuilt /\ pc # "exit"
    /\ prev.salt # <<>> /\ prev.site = SiteDigit /\ prev.increment = 1
    /\ args.site = SiteColon /\ increment = 12

\* the two invocations have the same secret, increment, site, schema and words
SameInputs ==
    /\ prev.secret = password /\ prev.increment = increment /\ prev.site = args.site
    /\ prev.expr = expr /\ prev.words = words

\* C6: an invocation given the secret, increment, site, schema and word list
\* of the previous one generates and writes the same password, whatever the
\* verbose and confirm flags of the two.
C6_SameInputsSamePassword ==
    /\ (pc \in {"write", "newline"} /\ prev.generated /\ SameInputs) => res = prev.res
    /\ (pc = "newline" /\ prev.ok /\ SameInputs) => stdout = prev.res

C6_Witness ==
    /\ pc = "newline" /\ prev.ok /\ SameInputs
    /\ prev.verbose # args.verbose /\ prev.confirm # args.confirm
    /\ stdout = prev.res /\ Len(res) > 0

EntropyLines == {i \in DOMAIN stderr : stderr[i].kind = "entropy"}

\* C9 as stated: a verbose run emits the salt on the diagnostic stream.
C9_VerboseEmitsSalt ==
    (args.verbose /\ SaltBuilt) =>
        \E i \in DOMAIN stderr : \E j \in DOMAIN stderr[i].fields :
            stderr[i].fields[j] = salt

\* C9 amended: a verbose run emits on the diagnostic stream, and not on
\* standard output, the bit length of the cardinality and its exact value in
\* hexadecimal; the salt is not emitted.
C9_VerboseEmitsEntropyOnly ==
    /\ (args.verbose /\ SizeComputed /\ pc # "verbose") =>
           \E i \in EntropyLines :
               LET b == DecValue(stderr[i].fields[1])
               IN  /\ IF size = 0 THEN b = 0
                      ELSE b > 0 /\ Pow2(b - 1) <= size /\ size < Pow2(b)
                   /\ HexValue(stderr[i].fields[2]) = size
    /\ ~args.verbose => EntropyLines = {}
    /\ IsPrefix(stdout, Generated \o <<"\n">>)
    /\ SaltBuilt =>
           \A i \in DOMAIN stderr : \A j \in DOMAIN stderr[i].fields :
               stderr[i].fields[j] # salt

C9_Witness ==
    args.verbose /\ pc = "derive" /\ EntropyLines # {} /\ size > 1 /\ salt # <<>>

\* C10: no two positions of the loaded word list hold the same word.
C10_WordsDistinct ==
    (pc \notin {"idle", "config", "words"} /\ status \notin {"ConfigError", "WordsFileError"}) =>
        \A i, j \in DOMAIN words : i # j => words[i] # words[j]

====
